---- MODULE Spec2Model ----
(***************************************************************************)
(* The step-function compiler of coworks/cli/sfn.py: create_step_function  *)
(* turns a parsed YAML document (states / catch action lists) into an      *)
(* Amazon States Language document.  Python dicts are TLA+ functions with  *)
(* string domains, Python lists are sequences, and the ordered States      *)
(* mapping of the result is a sequence of key/value entries.               *)
(* StepFunctionWriter._export_content, which compiles the workflows of the *)
(* services of an application and prints them, is modelled around it.      *)
(***************************************************************************)
EXTENDS Integers, Sequences, FiniteSets, TLC

\* create_step_function: its arguments, its locals and its outcome.
VARIABLES sfn_name, file, data, pc, all_states, actions, idx, result

\* _export_content: its inputs (the sfn_name of each service, the `biz`
\* option, the source found for each workflow name), its position and locals,
\* the two streams of the writer, the exception it raised, and the history
\* of the calls of create_step_function it made.
VARIABLES services, biz, sources, bpc, bi, step_functions, errors, output,
          error, raised, attempted

\* Calling create_step_function again on the same input: the number of the
\* call and the outcome of the call before.
VARIABLES run, previous

\* CwsCommand (coworks/cws/command.py): the two lists of registered
\* functions, the position of execute and of its loops, and the histories of
\* the calls execute made and of the registrations.
VARIABLES before_funcs, after_funcs, epc, ei, calls, registrations

cvars == <<sfn_name, file, data, pc, all_states, actions, idx, result>>

bvars == <<services, biz, sources, bpc, bi, step_functions, errors, output,
           error, raised, attempted>>

tvars == <<run, previous>>

evars == <<before_funcs, after_funcs, epc, ei, calls, registrations>>

vars == <<cvars, bvars, tvars, evars>>

INITIAL_STATE_NAME == "Init"
LAMBDA_ERROR_FALLBACK == "MicroServiceErrorFallback"

-----------------------------------------------------------------------------
(* Python values *)

\* The empty dict {}.
Empty == [k \in {} |-> TRUE]

\* Python's None where it is stored as a value.
None == "None"

\* key in d
Has(d, k) == k \in DOMAIN d

\* d[k] = v on a dict (an existing key is overwritten).
Put(d, k, v) == (k :> v) @@ d

\* d.get(k, default)
Get(d, k, default) == IF Has(d, k) THEN d[k] ELSE default

\* The outcome of a call: an exception (its class and its argument), or a
\* returned value.
RaiseOf(type, msg) == [raised |-> TRUE, type |-> type, msg |-> msg]
Return(v) == [raised |-> FALSE, value |-> v]

\* raise WriterError(msg)
Raise(msg) == RaiseOf("WriterError", msg)
\* The rest of a computation after a call that may raise: the exception
\* propagates, a returned value goes on into F.
Try(r, F(_)) == IF r.raised THEN r ELSE F(r.value)

\* repr() of a string, as str(KeyError(msg)) renders its argument.
Repr(msg) == "'" \o msg \o "'"

\* str(e) of a raised exception.
str(exc) == IF exc.type = "KeyError" THEN Repr(exc.msg) ELSE exc.msg

-----------------------------------------------------------------------------
(* class State and its subclasses: a node is the object's class, the action *)
(* it was built from (self.action) and its emitted dict (self.state).       *)

Node(cls, action, state) == [cls |-> cls, action |-> action, state |-> state]

\* State.name
name(node) ==
    IF Has(node.action, "name") THEN node.action.name
    ELSE "The action " \o ToString(node.action) \o " has no name"

\* State.slug: "_".join(self.name.split()).lower().  The declared names of
\* the input universe hold no whitespace; lower() changes "Init" only.  A
\* derived name (an action without `name`) is kept symbolic.
slug(node) ==
    LET n == name(node) IN
    IF ~Has(node.action, "name") THEN "slug(" \o n \o ")"
    ELSE IF n = "Init" THEN "init"
    ELSE n

\* get_goto without the special case of "End": every goto becomes a Next.
get_goto_without_end(action_or_choice) ==
    IF ~Has(action_or_choice, "goto") THEN Empty
    ELSE [Next |-> action_or_choice.goto]

\* State.get_goto: None is the empty entry, ("End", True) is [End |-> TRUE],
\* ("Next", goto) is [Next |-> goto].
get_goto(action_or_choice) ==
    IF ~Has(action_or_choice, "goto") THEN Empty
    ELSE IF action_or_choice.goto = "End" THEN [End |-> TRUE]
    ELSE [Next |-> action_or_choice.goto]

\* State.get_or_raise
get_or_raise(action, key) ==
    IF Has(action, key) THEN Return(action[key])
    ELSE Raise("The key " \o key \o " is missing for " \o ToString(action))

\* State.add_goto: self.state[key] = value when get_goto gives an entry.
add_goto(state, action) == get_goto(action) @@ state

PassState(action) == Node("PassState", action, [Type |-> "Pass"])

\* EndState that forgets to set End.
EndState_without_end(action) == Node("EndState", action, [Type |-> "Pass"])

EndState(action) == Node("EndState", action, [Type |-> "Pass", End |-> TRUE])

WaitState(action) ==
    Node("WaitState", action,
         add_goto([Type |-> "Wait", Seconds |-> action.wait], action))

\* TechState.validate_form_data
validate_form_data(form_data) == form_data

\* get_call_data without the test that a route is already defined: `post`
\* silently replaces `get`.
get_call_data_last_route_wins(action, tech_data) ==
    IF ~Has(tech_data, "get") /\ ~Has(tech_data, "post")
    THEN Raise("No route defined for " \o ToString(action))
    ELSE Return([type |-> "CWS_SFN",
                 resource |-> Get(tech_data, "post", Get(tech_data, "get", None)),
                 path |-> Get(tech_data, "post", Get(tech_data, "get", None)),
                 requestContext |->
                     [resourcePath |-> Get(tech_data, "post", Get(tech_data, "get", None)),
                      httpMethod |-> IF Has(tech_data, "post") THEN "POST" ELSE "GET"]])

\* TechState.get_call_data
get_call_data(action, tech_data) ==
    LET afterGet == IF Has(tech_data, "get")
                    THEN [route |-> tech_data.get, method |-> "GET"]
                    ELSE Empty
    IN
    IF Has(tech_data, "post") /\ Has(afterGet, "route")
    THEN Raise("A route was already defined for " \o ToString(action))
    ELSE
      LET found == IF Has(tech_data, "post")
                   THEN [route |-> tech_data.post, method |-> "POST"]
                   ELSE afterGet
      IN
      IF ~Has(found, "route")
      THEN Raise("No route defined for " \o ToString(action))
      ELSE
        \* `body if body else None`, `... if form_data else None`: a key that
        \* is present holds a non-empty value in the input universe.
        LET form_data == Get(tech_data, "form-data", None)
            body == Get(tech_data, "body", None)
        IN Return(
             ("form-data" :> (IF Has(tech_data, "form-data")
                              THEN validate_form_data(form_data) ELSE None))
             @@
             [type |-> "CWS_SFN",
              resource |-> found.route,
              path |-> found.route,
              requestContext |-> [resourcePath |-> found.route,
                                  httpMethod |-> found.method],
              multiValueQueryStringParameters |-> Get(tech_data, "query_params", None),
              pathParameters |-> Get(tech_data, "uri_params", None),
              headers |-> ("Accept-Encoding" :> "gzip,deflate")
                          @@ ("Content-Type" :> IF ~Has(tech_data, "form-data")
                                                THEN "application/json"
                                                ELSE "multipart/form-data"),
              body |-> body,
              stageVariables |-> None])

\* Only the States.TaskFailed clause.
catch_clauses_task_failed_only ==
    << [ErrorEquals |-> <<"States.TaskFailed">>, Next |-> LAMBDA_ERROR_FALLBACK] >>

\* The two fixed Catch clauses of a Task.
catch_clauses ==
    << [ErrorEquals |-> <<"BadRequestError">>, Next |-> LAMBDA_ERROR_FALLBACK],
       [ErrorEquals |-> <<"States.TaskFailed">>, Next |-> LAMBDA_ERROR_FALLBACK] >>

\* The optional TimeoutSeconds at the bottom of TechState.__init__.
add_timeout(state, tech_data) ==
    IF Has(tech_data, "timeout")
    THEN Put(state, "TimeoutSeconds", tech_data.timeout)
    ELSE state

\* TechState.__init__ (tech_data is action['tech'], present when it is called)
TechState(action) ==
    IF ~Has(action.tech, "service")
    THEN Raise("The key " \o Repr("service") \o " is missing for " \o ToString(action))
    ELSE
      Try(get_call_data(action, action.tech), LAMBDA params :
          Return(Node("TechState", action,
              add_timeout(
                  add_goto([Type |-> "Task",
                            Resource |-> "arn:aws:lambda:eu-west-1:935392763270:function:"
                                         \o action.tech.service,
                            InputPath |-> "$",
                            ResultPath |-> "$." \o slug(Node("TechState", action, Empty))
                                           \o ".result",
                            OutputPath |-> "$",
                            Parameters |-> params,
                            Catch |-> catch_clauses],
                           action),
                  action.tech))))

\* create_condition reading its keys with dict.get: an absent key is None.
create_condition_with_get(fragment) ==
    Return((Get(fragment, "oper", None) :> Get(fragment, "value", None))
           @@ [Variable |-> Get(fragment, "var", None)])

\* ChoiceState.create_choices_sequence.create_condition
create_condition(fragment) ==
    Try(get_or_raise(fragment, "var"), LAMBDA var :
    Try(get_or_raise(fragment, "oper"), LAMBDA oper :
    Try(get_or_raise(fragment, "value"), LAMBDA val :
        Return((oper :> val) @@ [Variable |-> var]))))

\* The loop body without the test on the jump: a branch without goto gives
\* an entry without jump directive.
choice_entry_without_goto_test(choice) ==
    IF Has(choice, "not")
    THEN Try(create_condition(choice["not"]), LAMBDA cond :
             Return(get_goto(choice) @@ ("Not" :> cond)))
    ELSE IF Has(choice, "or")
    THEN Try(create_condition(choice["or"]), LAMBDA cond :
             Return(get_goto(choice) @@ ("Or" :> cond)))
    ELSE IF Has(choice, "and")
    THEN Try(create_condition(choice["and"]), LAMBDA cond :
             Return(get_goto(choice) @@ ("And" :> cond)))
    ELSE Try(create_condition(choice), LAMBDA cond :
             Return(get_goto(choice) @@ cond))

\* The loop body with `if` in place of `elif`, every wrapper of the branch
\* being emitted: `not` and `or` together give Not and Or.
choice_entry_every_wrapper(choice) ==
    IF DOMAIN get_goto(choice) = {}
    THEN RaiseOf("KeyError", "The key goto is missing for " \o ToString(choice))
    ELSE IF Has(choice, "not") /\ Has(choice, "or")
    THEN Try(create_condition(choice["not"]), LAMBDA cond :
         Try(create_condition(choice["or"]), LAMBDA other :
             Return(get_goto(choice) @@ ("Not" :> cond) @@ ("Or" :> other))))
    ELSE IF Has(choice, "not")
    THEN Try(create_condition(choice["not"]), LAMBDA cond :
             Return(get_goto(choice) @@ ("Not" :> cond)))
    ELSE IF Has(choice, "or")
    THEN Try(create_condition(choice["or"]), LAMBDA cond :
             Return(get_goto(choice) @@ ("Or" :> cond)))
    ELSE IF Has(choice, "and")
    THEN Try(create_condition(choice["and"]), LAMBDA cond :
             Return(get_goto(choice) @@ ("And" :> cond)))
    ELSE Try(create_condition(choice), LAMBDA cond :
             Return(get_goto(choice) @@ cond))

\* The body of the loop of create_choices_sequence for one branch: the entry
\* appended to switch, or the exception raised.
choice_entry(choice) ==
    IF DOMAIN get_goto(choice) = {}
    THEN RaiseOf("KeyError", "The key goto is missing for " \o ToString(choice))
    ELSE IF Has(choice, "not")
    THEN Try(create_condition(choice["not"]), LAMBDA cond :
             Return(get_goto(choice) @@ ("Not" :> cond)))
    ELSE IF Has(choice, "or")
    THEN Try(create_condition(choice["or"]), LAMBDA cond :
             Return(get_goto(choice) @@ ("Or" :> cond)))
    ELSE IF Has(choice, "and")
    THEN Try(create_condition(choice["and"]), LAMBDA cond :
             Return(get_goto(choice) @@ ("And" :> cond)))
    ELSE Try(create_condition(choice), LAMBDA cond :
             Return(get_goto(choice) @@ cond))

\* ChoiceState.create_choices_sequence: the loop over the branches from
\* position k on, switch holding the entries appended so far.
RECURSIVE choices_from(_, _, _)
choices_from(choices, k, switch) ==
    IF k > Len(choices) THEN Return(switch)
    ELSE Try(choice_entry(choices[k]), LAMBDA e :
             choices_from(choices, k + 1, Append(switch, e)))

create_choices_sequence(choices) == choices_from(choices, 1, <<>>)

\* ChoiceState.__init__
ChoiceState(action) ==
    Try(create_choices_sequence(action.choices), LAMBDA switch :
        Return(Node("ChoiceState", action,
                    IF Has(action, "default")
                    THEN Put([Type |-> "Choice", Choices |-> switch],
                             "Default", action.default)
                    ELSE [Type |-> "Choice", Choices |-> switch])))

-----------------------------------------------------------------------------
(* new_state and the body of add_actions *)

\* add_next_to_previous_state without the isinstance test: a Choice is linked
\* with Next like any other node.
add_next_ignoring_choice(previous_state, state) ==
    IF ~Has(previous_state.state, "Next") /\ ~Has(previous_state.state, "End")
    THEN [previous_state EXCEPT !.state = Put(@, "Next", name(state))]
    ELSE previous_state

\* add_next_to_previous_state without the test that Default is absent: the
\* following action replaces a declared default.
add_next_overwriting_default(previous_state, state) ==
    IF previous_state.cls = "ChoiceState"
    THEN [previous_state EXCEPT !.state = Put(@, "Default", name(state))]
    ELSE IF ~Has(previous_state.state, "Next") /\ ~Has(previous_state.state, "End")
         THEN [previous_state EXCEPT !.state = Put(@, "Next", name(state))]
         ELSE previous_state

\* add_next_to_previous_state without the test on Next and End: the previous
\* node always falls through to the new one, whatever jump it declares.
add_next_over_declared_jump(previous_state, state) ==
    IF previous_state.cls = "ChoiceState"
    THEN IF ~Has(previous_state.state, "Default")
         THEN [previous_state EXCEPT !.state = Put(@, "Default", name(state))]
         ELSE previous_state
    ELSE [previous_state EXCEPT !.state = Put(@, "Next", name(state))]

\* new_state.add_next_to_previous_state: the previous node after linking.
add_next_to_previous_state(previous_state, state) ==
    IF previous_state.cls = "ChoiceState"
    THEN IF ~Has(previous_state.state, "Default")
         THEN [previous_state EXCEPT !.state = Put(@, "Default", name(state))]
         ELSE previous_state
    ELSE IF ~Has(previous_state.state, "Next") /\ ~Has(previous_state.state, "End")
         THEN [previous_state EXCEPT !.state = Put(@, "Next", name(state))]
         ELSE previous_state

\* new_state with a permissive last branch: an action of no known kind is
\* compiled to a Pass state instead of being refused.
new_state_accepting_any(action, previous_state) ==
    Try(IF Has(action, "choices") THEN ChoiceState(action)
        ELSE IF Has(action, "tech") THEN TechState(action)
        ELSE IF Has(action, "wait") THEN Return(WaitState(action))
        ELSE Return(PassState(action)),
        LAMBDA state :
          Return([state |-> state,
                  previous_state |-> add_next_to_previous_state(previous_state, state)]))

\* new_state: the new node and the previous node as linked, or the exception.
new_state(action, previous_state) ==
    Try(IF Has(action, "choices") THEN ChoiceState(action)
        ELSE IF Has(action, "tech") THEN TechState(action)
        ELSE IF Has(action, "wait") THEN Return(WaitState(action))
        ELSE Raise("Undefined type of action for " \o ToString(action)),
        LAMBDA state :
          Return([state |-> state,
                  previous_state |-> add_next_to_previous_state(previous_state, state)]))

\* The test of add_actions that the action just compiled is the last one.
is_last_action(action, acts) == action = acts[Len(acts)]

\* The End rule without its test on Next: the last state is always marked.
close_state_ignoring_next(state, action, acts) ==
    IF is_last_action(action, acts)
    THEN [state EXCEPT !.state = Put(@, "End", TRUE)]
    ELSE state

\* The implicit End rule at the bottom of the loop of add_actions.
close_state(state, action, acts) ==
    IF is_last_action(action, acts) /\ ~Has(state.state, "Next")
    THEN [state EXCEPT !.state = Put(@, "End", TRUE)]
    ELSE state

\* add_actions without its emptiness test.
no_actions_unchecked(acts) == FALSE

\* `not actions` at the top of add_actions.
no_actions(acts) == Len(acts) = 0

-----------------------------------------------------------------------------
(* The returned document *)

\* The keys of an insertion-ordered dict, and the value under a key.
Keys(d) == { d[j].key : j \in 1..Len(d) }

Lookup(d, k) == d[CHOOSE j \in 1..Len(d) : d[j].key = k].value

\* d[k] = v on an insertion-ordered dict kept as a sequence of entries.
OrderedPut(d, k, v) ==
    IF \E j \in 1..Len(d) : d[j].key = k
    THEN [j \in 1..Len(d) |-> IF d[j].key = k THEN [key |-> k, value |-> v] ELSE d[j]]
    ELSE Append(d, [key |-> k, value |-> v])

\* {state.name: state.state for state in all_states}
RECURSIVE states_dict(_, _, _)
states_dict(nodes, k, d) ==
    IF k > Len(nodes) THEN d
    ELSE states_dict(nodes, k + 1, OrderedPut(d, name(nodes[k]), nodes[k].state))

document(sfn, doc, nodes) ==
    [Version |-> "1.0",
     Comment |-> Get(doc, "comment", sfn),
     StartAt |-> "Init",
     States |-> states_dict(nodes, 1, <<>>)]

\* An exception leaving create_step_function: its class and str(e).
Escaped(type, msg) == [type |-> type, error |-> msg]

\* A WriterError leaving create_step_function.
WriterError(msg) == Escaped("WriterError", msg)

\* The except clauses without the catch-all `except Exception`: an exception
\* that is no WriterError leaves create_step_function as it is.
except_clauses_without_catch_all(sfn, exc) ==
    IF exc.type = "FileNotFoundError"
    THEN WriterError("The source for the " \o sfn
                     \o " microservice should be found in cwd/filepath.")
    ELSE Escaped(exc.type, str(exc))

\* Lines 84-87: the except clauses of create_step_function, applied to the
\* exception raised inside its try block.
except_clauses(sfn, exc) ==
    IF exc.type = "FileNotFoundError"
    THEN WriterError("The source for the " \o sfn
                     \o " microservice should be found in cwd/filepath.")
    ELSE WriterError(str(exc))

-----------------------------------------------------------------------------
(* The input universe: the source file of one workflow *)

\* The longest `states` list and the longest `catch` list drawn.
MaxStates == 2
MaxCatch == 2

Condition(target) ==
    [var |-> "$.x", oper |-> "BooleanEquals", value |-> TRUE, goto |-> target]

\* A condition fragment on the variable, without jump.
Fragment(variable) == [var |-> variable, oper |-> "BooleanEquals", value |-> TRUE]

\* The actions new_state compiles.
Actions ==
    { [name |-> "s1", wait |-> 1],
      [name |-> "s2", wait |-> 5, goto |-> "End"],
      [name |-> "s3", wait |-> 1, goto |-> "s1"],
      [wait |-> 1],
      [name |-> "s2", tech |-> [service |-> "svc", get |-> "/x"]],
      [name |-> "s3", tech |-> [service |-> "svc", post |-> "/y", timeout |-> 30],
       goto |-> "s2"],
      [name |-> "c1", choices |-> <<Condition("s2")>>, default |-> "s3"],
      [name |-> "c2",
       choices |-> << Condition("s1"),
                      [not |-> [var |-> "$.y", oper |-> "BooleanEquals", value |-> FALSE],
                       goto |-> "End"] >>],
      [name |-> "Init", wait |-> 2],
      [name |-> "c3",
       choices |-> << [and |-> Fragment("$.x"), var |-> "$.y",
                       oper |-> "StringEquals", value |-> FALSE, goto |-> "s1"],
                      [not |-> Fragment("$.x"), or |-> Fragment("$.y"), goto |-> "s2"],
                      [or |-> Fragment("$.y"), goto |-> "End"] >>] }

\* The actions new_state raises on: a Task with two routes, without route,
\* without service, a Choice with a branch without goto or with a fragment
\* without var, oper or value, an action of no known kind.
RefusedActions ==
    { [name |-> "s1", tech |-> [service |-> "svc", get |-> "/x", post |-> "/y"]],
      [name |-> "s3", tech |-> [service |-> "svc"]],
      [name |-> "s1", tech |-> [get |-> "/x", post |-> "/y"]],
      [name |-> "c1", choices |-> << [var |-> "$.x", oper |-> "BooleanEquals",
                                      value |-> TRUE] >>],
      [name |-> "s2", comment |-> "neither choices, tech nor wait"],
      [name |-> "c2", choices |-> << Condition("s1"), Fragment("$.y") >>],
      [name |-> "c1", choices |-> << [oper |-> "BooleanEquals", value |-> TRUE,
                                      goto |-> "s1"],
                                     Fragment("$.y") >>],
      [name |-> "c1", choices |-> << [or |-> [var |-> "$.x", value |-> TRUE],
                                      goto |-> "s1"] >>],
      [name |-> "c2", choices |-> << [not |-> [var |-> "$.x", oper |-> "BooleanEquals"],
                                      var |-> "$.y", oper |-> "BooleanEquals",
                                      value |-> FALSE, goto |-> "s1"] >> ] }

\* The actions the `catch` lists are drawn from.
CatchActions ==
    { [name |-> "s1", wait |-> 1],
      [name |-> "s3", wait |-> 1, goto |-> "s1"],
      [name |-> "s2", tech |-> [service |-> "svc", get |-> "/x"]],
      [name |-> "c2",
       choices |-> << Condition("s1"),
                      [not |-> [var |-> "$.y", oper |-> "BooleanEquals", value |-> FALSE],
                       goto |-> "End"] >>],
      [name |-> LAMBDA_ERROR_FALLBACK, wait |-> 1] }

ListsUpTo(S, n) == UNION { [1..k -> S] : k \in 0..n }

Documents ==
    { Empty, [comment |-> "no states"], [catch |-> << [name |-> "s1", wait |-> 1] >>] }
    \cup { [states |-> s] : s \in ListsUpTo(Actions, MaxStates) }
    \cup { [states |-> s, catch |-> c] :
             s \in ListsUpTo(Actions, MaxStates), c \in ListsUpTo(CatchActions, MaxCatch) }
    \cup { [states |-> Append(s, a)] :
             s \in ListsUpTo(Actions, MaxStates - 1), a \in RefusedActions }
    \cup { [states |-> << [name |-> "s1", wait |-> 1] >>, catch |-> Append(c, a)] :
             c \in ListsUpTo(CatchActions, MaxCatch - 1), a \in RefusedActions }
    \cup { [comment |-> "a workflow", states |-> << [name |-> "s1", wait |-> 1] >>] }

\* What filepath.open() and yaml.load find.
Files == {"missing", "unparsable", "loaded"}

-----------------------------------------------------------------------------
(* create_step_function, one step per action *)

\* create_step_function is called on its own, not by _export_content.
NoBatch ==
    /\ services = <<>>
    /\ biz = None
    /\ sources = Empty
    /\ bpc = "none"
    /\ bi = 0
    /\ step_functions = <<>>
    /\ errors = <<>>
    /\ output = <<>>
    /\ error = <<>>
    /\ raised = None
    /\ attempted = <<>>

\* The first call on an input.
FirstRun == run = 1 /\ previous = Empty

\* No command is executed.
NoCommand ==
    /\ before_funcs = <<>>
    /\ after_funcs = <<>>
    /\ epc = "none"
    /\ ei = 0
    /\ calls = <<>>
    /\ registrations = <<>>

Init ==
    /\ sfn_name = "biz"
    /\ file \in Files
    /\ data \in (IF file = "loaded" THEN Documents ELSE {Empty})
    /\ pc = "open"
    /\ all_states = <<>>
    /\ actions = <<>>
    /\ idx = 0
    /\ result = Empty
    /\ NoBatch
    /\ FirstRun
    /\ NoCommand

\* An exception raised inside the try block of create_step_function.
Fail(exc) ==
    /\ pc' = "done"
    /\ result' = except_clauses(sfn_name, exc)

\* Enter add_actions(states, acts): the emptiness test and the loop set-up.
EnterActions(acts, where) ==
    IF no_actions(acts)
    THEN /\ Fail(Raise("Actions list cannot be empty."))
         /\ UNCHANGED <<actions, idx>>
    ELSE /\ pc' = where
         /\ actions' = acts
         /\ idx' = 1
         /\ UNCHANGED result

\* The document is not tested for emptiness.
no_data_unchecked(doc) == FALSE

\* Line 57: `not data`
no_data(doc) == DOMAIN doc = {}

\* all_states created once and shared by the calls: a call finds the nodes of
\* the call before.
all_states_shared ==
    IF all_states = <<>> THEN << PassState([name |-> INITIAL_STATE_NAME]) >>
    ELSE all_states

\* all_states accumulating over the calls: the list is not created by the
\* call but kept from the call before.
all_states_kept == Append(all_states, PassState([name |-> INITIAL_STATE_NAME]))

\* Lines 60-62: first = PassState({'name': INITIAL_STATE_NAME});
\* all_states = [first]
new_all_states == << PassState([name |-> INITIAL_STATE_NAME]) >>

\* Lines 55-64: open and load the file, refuse an empty document, create the
\* Init node, read `states` and enter add_actions over it.
Open ==
    /\ pc = "open"
    /\ IF file = "missing"
       THEN /\ Fail(RaiseOf("FileNotFoundError", "filepath"))
            /\ UNCHANGED <<all_states, actions, idx>>
       ELSE IF file = "unparsable"
       THEN /\ Fail(RaiseOf("YAMLError", "yaml error"))
            /\ UNCHANGED <<all_states, actions, idx>>
       ELSE IF no_data(data)
       THEN /\ Fail(Raise("The content of the " \o sfn_name
                          \o " microservice seems to be empty."))
            /\ UNCHANGED <<all_states, actions, idx>>
       ELSE
         LET states == get_or_raise(data, "states") IN
         /\ all_states' = new_all_states
         /\ IF states.raised
            THEN Fail(states) /\ UNCHANGED <<actions, idx>>
            ELSE EnterActions(states.value, "states")
    /\ UNCHANGED <<sfn_name, file, data, bvars, tvars, evars>>

\* Lines 95-101: one iteration of the loop of add_actions, over `states` or
\* over `catch`.
AddAction ==
    /\ pc \in {"states", "catch"}
    /\ idx <= Len(actions)
    /\ LET action == actions[idx]
           made == new_state(action, all_states[Len(all_states)])
       IN
       IF made.raised
       THEN /\ Fail(made)
            /\ UNCHANGED <<all_states, idx>>
       ELSE /\ all_states' =
                 Append([all_states EXCEPT ![Len(all_states)] = made.value.previous_state],
                        close_state(made.value.state, action, actions))
            /\ idx' = idx + 1
            /\ UNCHANGED <<pc, result>>
    /\ UNCHANGED <<sfn_name, file, data, actions, bvars, tvars, evars>>

\* Lines 66-67: first.state['Result'] = {}; first.state['Next'] = all_states[1].name
link_first(nodes) ==
    [nodes EXCEPT ![1].state = Put(Put(@, "Result", Empty), "Next", name(nodes[2]))]

\* Lines 66-76: complete the Init node, append the fallback node and, with a
\* `catch` key, enter add_actions over the catch list.
AppendFallback ==
    /\ pc = "states"
    /\ idx > Len(actions)
    /\ IF Len(all_states) < 2
       THEN \* all_states[1] raises IndexError, wrapped by `except Exception`
            /\ Fail(RaiseOf("IndexError", "list index out of range"))
            /\ UNCHANGED <<all_states, actions, idx>>
       ELSE IF ~Has(data, "catch")
       THEN /\ all_states' = Append(link_first(all_states),
                                    EndState([name |-> LAMBDA_ERROR_FALLBACK]))
            /\ pc' = "return"
            /\ UNCHANGED <<actions, idx, result>>
       ELSE /\ all_states' = Append(link_first(all_states),
                                    PassState([name |-> LAMBDA_ERROR_FALLBACK]))
            /\ EnterActions(data.catch, "catch")
    /\ UNCHANGED <<sfn_name, file, data, bvars, tvars, evars>>

\* Lines 78-83: the document is returned.
ReturnDocument ==
    /\ \/ pc = "return"
       \/ pc = "catch" /\ idx > Len(actions)
    /\ pc' = "done"
    /\ result' = [doc |-> document(sfn_name, data, all_states)]
    /\ UNCHANGED <<sfn_name, file, data, all_states, actions, idx, bvars, tvars, evars>>

Next == Open \/ AddAction \/ AppendFallback \/ ReturnDocument

Spec == Init /\ [][Next]_vars

-----------------------------------------------------------------------------
(* create_step_function as a function of its arguments *)

\* Lines 95-101: the loop of add_actions from the k-th action on; the list of
\* nodes it leaves, or the exception.
RECURSIVE add_actions_loop(_, _, _)
add_actions_loop(states, acts, k) ==
    IF k > Len(acts) THEN Return(states)
    ELSE Try(new_state(acts[k], states[Len(states)]), LAMBDA made :
             add_actions_loop(
                 Append([states EXCEPT ![Len(states)] = made.previous_state],
                        close_state(made.state, acts[k], acts)),
                 acts, k + 1))

\* add_actions(states, actions)
add_actions(states, acts) ==
    IF no_actions(acts) THEN Raise("Actions list cannot be empty.")
    ELSE add_actions_loop(states, acts, 1)

\* Lines 66-83: what follows add_actions over `states`.
fallback_and_document(sfn, doc, nodes) ==
    IF Len(nodes) < 2 THEN RaiseOf("IndexError", "list index out of range")
    ELSE IF ~Has(doc, "catch")
    THEN Return(document(sfn, doc,
                         Append(link_first(nodes),
                                EndState([name |-> LAMBDA_ERROR_FALLBACK]))))
    ELSE Try(add_actions(Append(link_first(nodes),
                                PassState([name |-> LAMBDA_ERROR_FALLBACK])),
                         doc.catch),
             LAMBDA nodes_and_catch : Return(document(sfn, doc, nodes_and_catch)))

\* Lines 55-83: the body of the try block, on the source found at filepath.
try_block(sfn, source) ==
    IF source.file = "missing" THEN RaiseOf("FileNotFoundError", "filepath")
    ELSE IF source.file = "unparsable" THEN RaiseOf("YAMLError", "yaml error")
    ELSE IF no_data(source.data)
    THEN Raise("The content of the " \o sfn \o " microservice seems to be empty.")
    ELSE Try(get_or_raise(source.data, "states"), LAMBDA states :
         Try(add_actions(<< PassState([name |-> INITIAL_STATE_NAME]) >>, states),
             LAMBDA nodes : fallback_and_document(sfn, source.data, nodes)))

\* create_step_function(sfn_name, filepath): the document returned or the
\* exception that leaves it.
create_step_function(sfn, source) ==
    IF try_block(sfn, source).raised
    THEN except_clauses(sfn, try_block(sfn, source))
    ELSE [doc |-> try_block(sfn, source).value]

-----------------------------------------------------------------------------
(* The same call made a second time *)

\* create_step_function is called again with the same arguments once the
\* first call is over; what the first call left in its locals is still there.
Recompile ==
    /\ pc = "done"
    /\ run = 1
    /\ run' = 2
    /\ previous' = result
    /\ pc' = "open"
    /\ UNCHANGED <<sfn_name, file, data, all_states, actions, idx, result, bvars,
                   evars>>

NextTwice == Open \/ AddAction \/ AppendFallback \/ ReturnDocument \/ Recompile

SpecTwice == Init /\ [][NextTwice]_vars

-----------------------------------------------------------------------------
(* StepFunctionWriter._export_content *)

\* The most services an application has.
MaxServices == 3

\* The sfn_name a service may have.
WorkflowNames == {"biz", "orders", "billing"}

\* What is found at the filename of a workflow: no file, a document that
\* compiles (with and without `catch`), a document whose Choice has a branch
\* without goto.
BatchSources ==
    { [file |-> "missing", data |-> Empty],
      [file |-> "loaded", data |-> [states |-> << [name |-> "s1", wait |-> 1] >>]],
      [file |-> "loaded",
       data |-> [states |-> << [name |-> "s2",
                               tech |-> [service |-> "svc", get |-> "/x"]] >>,
                 catch |-> << [name |-> "s1", wait |-> 1] >>]],
      [file |-> "loaded",
       data |-> [states |-> << [name |-> "c1",
                               choices |-> << [var |-> "$.x",
                                               oper |-> "BooleanEquals",
                                               value |-> TRUE] >>] >>]] }

InitBatch ==
    /\ services \in ListsUpTo(WorkflowNames, MaxServices)
    /\ biz \in {None} \cup WorkflowNames
    /\ sources \in [WorkflowNames -> BatchSources]
    /\ bpc = "enter"
    /\ bi = 0
    /\ step_functions = <<>>
    /\ errors = <<>>
    /\ output = <<>>
    /\ error = <<>>
    /\ raised = None
    /\ attempted = <<>>
    /\ sfn_name = None
    /\ file = "missing"
    /\ data = Empty
    /\ pc = "idle"
    /\ all_states = <<>>
    /\ actions = <<>>
    /\ idx = 0
    /\ result = Empty
    /\ FirstRun
    /\ NoCommand

\* Lines 21-28: the message for an application without services, then the
\* two empty dicts.
Enter ==
    /\ bpc = "enter"
    /\ error' = IF Len(services) = 0
                THEN Append(error, "No bizz service defined for app")
                ELSE error
    /\ step_functions' = <<>>
    /\ errors' = <<>>
    /\ bi' = 1
    /\ bpc' = "loop"
    /\ UNCHANGED <<services, biz, sources, output, raised, attempted, cvars, tvars, evars>>

\* Line 31: the service is passed over.
skip(service, sfns, option) ==
    service \in Keys(sfns) \/ (option /= None /\ service /= option)

\* Lines 29-36: the next service of the loop is passed over, or
\* create_step_function is called for its workflow.
NextService ==
    /\ bpc = "loop"
    /\ bi <= Len(services)
    /\ IF skip(services[bi], step_functions, biz)
       THEN /\ bi' = bi + 1
            /\ UNCHANGED <<bpc, cvars>>
       ELSE /\ sfn_name' = services[bi]
            /\ file' = sources[services[bi]].file
            /\ data' = sources[services[bi]].data
            /\ pc' = "open"
            /\ bpc' = "call"
            /\ UNCHANGED <<bi, all_states, actions, idx, result>>
    /\ UNCHANGED <<services, biz, sources, step_functions, errors, output, error,
                   raised, attempted, tvars, evars>>

\* Lines 36-39: the document is kept in step_functions, a WriterError is kept
\* in errors, any other exception leaves _export_content.
Collect ==
    /\ bpc = "call"
    /\ pc = "done"
    /\ attempted' = Append(attempted, [sfn_name |-> sfn_name, result |-> result])
    /\ IF Has(result, "doc")
       THEN /\ step_functions' = OrderedPut(step_functions, sfn_name, result.doc)
            /\ bi' = bi + 1
            /\ bpc' = "loop"
            /\ UNCHANGED <<errors, raised>>
       ELSE IF result.type = "WriterError"
       THEN /\ errors' = OrderedPut(errors, sfn_name, result.error)
            /\ bi' = bi + 1
            /\ bpc' = "loop"
            /\ UNCHANGED <<step_functions, raised>>
       ELSE /\ raised' = result.type
            /\ bpc' = "raised"
            /\ UNCHANGED <<step_functions, errors, bi>>
    /\ UNCHANGED <<services, biz, sources, output, error, cvars, tvars, evars>>

\* The documents are printed although a workflow failed.
has_errors_never(errs) == FALSE

\* Line 41: if errors
has_errors(errs) == Len(errs) > 0

\* Only the first failure is printed.
error_lines_first_only(errs) ==
    << "Error in " \o errs[1].key \o ": " \o errs[1].value >>

\* Lines 42-43: one line per entry of errors.
error_lines(errs) ==
    [j \in 1..Len(errs) |-> "Error in " \o errs[j].key \o ": " \o errs[j].value]

\* The marker is printed before every document.
needs_separator_always(i) == TRUE

\* Line 47: if idx > 0
needs_separator(i) == i > 0

\* Line 49: json.dumps(sfn, indent=2), the text of the document.
json_dumps(sfn) == ToString(sfn)

\* Lines 46-49: the loop printing the documents from position i (0-based)
\* on, out being what the output stream holds.
RECURSIVE print_documents(_, _, _)
print_documents(sfns, i, out) ==
    IF i >= Len(sfns) THEN out
    ELSE print_documents(sfns, i + 1,
                         Append(IF needs_separator(i) THEN Append(out, "---") ELSE out,
                                json_dumps(sfns[i + 1].value)))

\* Lines 41-49: after the loop, the errors are printed and WriterError is
\* raised, or the documents are printed.
Finish ==
    /\ bpc = "loop"
    /\ bi > Len(services)
    /\ IF has_errors(errors)
       THEN /\ error' = error \o error_lines(errors)
            /\ raised' = "WriterError"
            /\ bpc' = "raised"
            /\ UNCHANGED output
       ELSE /\ output' = print_documents(step_functions, 0, output)
            /\ bpc' = "returned"
            /\ UNCHANGED <<error, raised>>
    /\ UNCHANGED <<services, biz, sources, bi, step_functions, errors, attempted,
                   cvars, tvars, evars>>

NextBatch ==
    \/ Enter
    \/ NextService
    \/ Open
    \/ AddAction
    \/ AppendFallback
    \/ ReturnDocument
    \/ Collect
    \/ Finish

SpecBatch == InitBatch /\ [][NextBatch]_vars

-----------------------------------------------------------------------------
(* Reading a finished compilation *)

\* create_step_function has returned a document.
Compiled == pc = "done" /\ Has(result, "doc")

\* create_step_function has raised.
Failed == pc = "done" /\ Has(result, "error")

EmptyActionList == WriterError("Actions list cannot be empty.")

\* Lengths of the two action lists of the source document.
NStates == IF Has(data, "states") THEN Len(data.states) ELSE 0
NCatch == IF Has(data, "catch") THEN Len(data.catch) ELSE 0

\* Positions in all_states of the nodes compiled from the `states` list and
\* from the `catch` list (Init is node 1, the fallback node follows `states`).
MainNodes == { k \in 2..Len(all_states) : k <= 1 + NStates }
CatchNodes == { k \in 2..Len(all_states) : k > 2 + NStates }

\* Whether node k was compiled from the last action of its list.
IsLastOfList(k) == k = 1 + NStates \/ k = 2 + NStates + NCatch

\* Every name an edge of the emitted state s points to.
EdgeTargets(s) ==
    (IF Has(s, "Next") THEN {s.Next} ELSE {})
    \cup (IF Has(s, "Default") THEN {s.Default} ELSE {})
    \cup (IF Has(s, "Choices")
          THEN { s.Choices[k].Next : k \in { j \in 1..Len(s.Choices) : Has(s.Choices[j], "Next") } }
          ELSE {})
    \cup (IF Has(s, "Catch") THEN { s.Catch[k].Next : k \in 1..Len(s.Catch) } ELSE {})

-----------------------------------------------------------------------------
(* The claims *)

\* C1: every edge target of a returned document (StartAt, Next, Default, the
\* Next of the Choices entries, the Next of the Catch clauses) names a state
\* present in States.  The code never looks a goto or default up.
C1_NoDanglingEdge ==
    Compiled =>
      LET States == result.doc.States IN
      /\ result.doc.StartAt \in Keys(States)
      /\ \A j \in 1..Len(States) : EdgeTargets(States[j].value) \subseteq Keys(States)

\* C2: the nodes of a returned document have pairwise distinct names, so that
\* States holds 1 + |states| + 1 + |catch| entries.
C2_UniqueNames ==
    Compiled =>
      /\ \A j, k \in 1..Len(all_states) :
            j /= k => name(all_states[j]) /= name(all_states[k])
      /\ Len(result.doc.States) = 1 + NStates + 1 + NCatch

\* C3: in a returned document a Choice state has neither Next nor End, and
\* every other state has exactly one of Next and End.
C3_OneControlField ==
    Compiled =>
      \A j \in 1..Len(result.doc.States) :
         LET s == result.doc.States[j].value IN
         IF s.Type = "Choice"
         THEN ~Has(s, "Next") /\ ~Has(s, "End")
         ELSE Has(s, "Next") /= Has(s, "End")

\* C4: once add_actions has compiled the final action of a list, the node of
\* that action has End: true exactly when it has no Next.
C4_ImplicitEnd ==
    \A k \in MainNodes \cup CatchNodes :
       IsLastOfList(k) =>
         LET s == all_states[k].state IN
         /\ Has(s, "End") <=> ~Has(s, "Next")
         /\ Has(s, "End") => s.End = TRUE

\* C4 witness: the final action of the `states` list has no goto, has been
\* compiled and is marked End.
C4_Witness ==
    /\ NStates >= 1
    /\ Len(all_states) >= 1 + NStates
    /\ ~Has(data.states[NStates], "goto")
    /\ Has(all_states[1 + NStates].state, "End")
    /\ ~Has(all_states[1 + NStates].state, "Next")

\* C5: a Wait or Task action without goto that is not the last of its list
\* compiles to a node that is not terminal and whose Next is the name of the
\* node of the following action.
C5_Fallthrough ==
    Compiled =>
      \A k \in MainNodes \cup CatchNodes :
         LET a == all_states[k].action IN
         (~IsLastOfList(k) /\ (Has(a, "wait") \/ Has(a, "tech")) /\ ~Has(a, "choices")
            /\ ~Has(a, "goto"))
         => /\ ~Has(all_states[k].state, "End")
            /\ Has(all_states[k].state, "Next")
            /\ all_states[k].state.Next = name(all_states[k + 1])

\* C6: a Choice node has a Default exactly when its action declares `default`
\* or another action follows it in the same list; a Default that comes from
\* fallthrough is the name of the node of the following action.
C6_DefaultIff ==
    Compiled =>
      \A k \in MainNodes \cup CatchNodes :
         all_states[k].cls = "ChoiceState" =>
           LET a == all_states[k].action
               s == all_states[k].state
           IN
           /\ Has(s, "Default") <=> (Has(a, "default") \/ ~IsLastOfList(k))
           /\ (~Has(a, "default") /\ ~IsLastOfList(k))
                => s.Default = name(all_states[k + 1])

\* C6 witness: a returned document with a Choice without `default` that is
\* followed by an action and took its Default from it.
C6_Witness ==
    /\ Compiled
    /\ \E k \in MainNodes \cup CatchNodes :
          /\ all_states[k].cls = "ChoiceState"
          /\ ~Has(all_states[k].action, "default")
          /\ ~IsLastOfList(k)
          /\ Has(all_states[k].state, "Default")

\* C7: the Choices array of a compiled Choice has one entry per declared
\* branch, in order, and entry k carries the jump of branch k: End: true for
\* goto "End", Next: <target> otherwise.
C7_ChoicesEntries ==
    \A k \in MainNodes \cup CatchNodes :
       all_states[k].cls = "ChoiceState" =>
         LET branches == all_states[k].action.choices
             entries == all_states[k].state.Choices
         IN
         /\ Len(entries) = Len(branches)
         /\ \A b \in 1..Len(branches) :
               IF branches[b].goto = "End"
               THEN Has(entries[b], "End") /\ entries[b].End = TRUE
                    /\ ~Has(entries[b], "Next")
               ELSE Has(entries[b], "Next") /\ entries[b].Next = branches[b].goto
                    /\ ~Has(entries[b], "End")

\* C7 witness: a returned document with a Choice of two branches, one of
\* them jumping to "End".
C7_Witness ==
    /\ Compiled
    /\ \E k \in MainNodes \cup CatchNodes :
          /\ all_states[k].cls = "ChoiceState"
          /\ Len(all_states[k].state.Choices) = 2
          /\ \E b \in 1..2 : all_states[k].action.choices[b].goto = "End"

\* C8: a Choice whose action declares `default` keeps that value as its
\* Default, whatever follows it.
C8_DefaultPrecedence ==
    \A k \in MainNodes \cup CatchNodes :
       (all_states[k].cls = "ChoiceState" /\ Has(all_states[k].action, "default"))
       => /\ Has(all_states[k].state, "Default")
          /\ all_states[k].state.Default = all_states[k].action.default

\* C8 witness: a Choice with `default` has been followed by an action of
\* another name than the declared default, and the document is returned.
C8_Witness ==
    /\ Compiled
    /\ \E k \in MainNodes \cup CatchNodes :
          /\ all_states[k].cls = "ChoiceState"
          /\ Has(all_states[k].action, "default")
          /\ ~IsLastOfList(k)
          /\ name(all_states[k + 1]) /= all_states[k].action.default

\* C9: a document whose `states` list or declared `catch` list is empty never
\* compiles, and add_actions entered on the empty list (the `states` list, or
\* the `catch` list once the fallback node is appended) fails with the
\* empty-action-list error.
C9_EmptyActionList ==
    (pc = "done" /\ file = "loaded" /\ Has(data, "states")) =>
      /\ data.states = <<>> => result = EmptyActionList
      /\ (Has(data, "catch") /\ data.catch = <<>>) =>
            /\ Failed
            /\ Len(all_states) = 2 + NStates => result = EmptyActionList

\* C9 witness: the main list compiled, the declared catch list is empty and
\* compilation has failed.
C9_Witness ==
    /\ Failed
    /\ Has(data, "states") /\ Has(data, "catch")
    /\ data.catch = <<>>
    /\ NStates >= 1
    /\ Len(all_states) = 2 + NStates

\* The fallback state of a document without `catch`, but for its kind: one
\* entry of that name, terminal, and the last node compiled.
TerminalFallback(kind) ==
    LET States == result.doc.States
        last == all_states[Len(all_states)]
    IN
    /\ Cardinality({ j \in 1..Len(States) : States[j].key = LAMBDA_ERROR_FALLBACK }) = 1
    /\ name(last) = LAMBDA_ERROR_FALLBACK
    /\ Lookup(States, LAMBDA_ERROR_FALLBACK) = last.state
    /\ last.state.Type = kind
    /\ Has(last.state, "End") /\ last.state.End = TRUE
    /\ ~Has(last.state, "Next")
    /\ Len(all_states) = 2 + NStates

-----------------------------------------------------------------------------
(* Reading a failed iteration of add_actions *)

\* create_step_function has raised while new_state compiled actions[idx].
FailedInLoop == Failed /\ idx >= 1 /\ idx <= Len(actions)

\* The action none of `choices`, `tech`, `wait` is a key of.
Unrecognized(a) == ~Has(a, "choices") /\ ~Has(a, "tech") /\ ~Has(a, "wait")

\* The node was left as its own construction made it: a Next or a Default it
\* has was declared by its action, not set by linking a following node.
Unlinked(node) ==
    /\ Has(node.state, "Next") => (Has(node.action, "goto") /\ node.cls /= "ChoiceState")
    /\ Has(node.state, "Default") => Has(node.action, "default")

\* C11: with a `catch` list, States holds under the reserved fallback name a
\* Pass state that is not terminal and whose Next is the name of the node of
\* the first catch action; the catch actions are compiled in order after it,
\* every fallthrough edge goes to the node of the following action and the
\* last one is closed by the implicit End rule.
C11_FallbackEntersCatch ==
    (Compiled /\ Has(data, "catch")) =>
      LET fb == Lookup(result.doc.States, LAMBDA_ERROR_FALLBACK)
          base == 2 + NStates
      IN
      /\ fb.Type = "Pass"
      /\ ~Has(fb, "End")
      /\ Has(fb, "Next") /\ fb.Next = name(all_states[base + 1])
      /\ Len(all_states) = base + NCatch
      /\ \A j \in 1..NCatch :
            LET n == all_states[base + j] IN
            /\ n.action = data.catch[j]
            /\ (j < NCatch /\ Has(n.state, "Next") /\ ~Has(n.action, "goto"))
                  => n.state.Next = name(all_states[base + j + 1])
            /\ j = NCatch => (Has(n.state, "End") <=> ~Has(n.state, "Next"))

\* C12: a returned document starts at "Init", and States holds under "Init"
\* one Pass state with an empty Result whose Next is the name of the node of
\* the first action of `states`.
C12_InitState ==
    Compiled =>
      LET States == result.doc.States
          init == Lookup(States, "Init")
      IN
      /\ result.doc.StartAt = "Init"
      /\ Cardinality({ j \in 1..Len(States) : States[j].key = "Init" }) = 1
      /\ init.Type = "Pass"
      /\ Has(init, "Result") /\ DOMAIN init.Result = {}
      /\ Has(init, "Next") /\ init.Next = name(all_states[2])
      /\ all_states[2].action = data.states[1]

\* C13: a node compiled from an action is a Choice when the action has
\* `choices`, else a Task when it has `tech`, else a Wait when it has `wait`;
\* an action with none of the three is refused with the unrecognized-action
\* error, and then nothing is appended and the previous node is not linked.
C13_ActionKinds ==
    /\ \A k \in MainNodes \cup CatchNodes :
          LET a == all_states[k].action
              n == all_states[k]
          IN
          /\ ~Unrecognized(a)
          /\ Has(a, "choices") => (n.cls = "ChoiceState" /\ n.state.Type = "Choice")
          /\ (~Has(a, "choices") /\ Has(a, "tech"))
                => (n.cls = "TechState" /\ n.state.Type = "Task")
          /\ (~Has(a, "choices") /\ ~Has(a, "tech") /\ Has(a, "wait"))
                => (n.cls = "WaitState" /\ n.state.Type = "Wait")
    /\ (FailedInLoop /\ Unrecognized(actions[idx])) =>
          /\ result = WriterError("Undefined type of action for "
                                  \o ToString(actions[idx]))
          /\ Len(all_states) = (IF Has(data, "catch") /\ actions = data.catch
                                   /\ Len(all_states) > 1 + NStates
                                THEN 2 + NStates ELSE 1) + (idx - 1)
          /\ Unlinked(all_states[Len(all_states)])

\* C13 witness: the second action of a list is of no known kind and
\* compilation has failed on it.
C13_Witness ==
    /\ FailedInLoop
    /\ idx = 2
    /\ Unrecognized(actions[idx])
    /\ ~Has(all_states[Len(all_states)].action, "goto")

C15_CatchClauses ==
    /\ \A k \in MainNodes \cup CatchNodes :
          all_states[k].state.Type = "Task" =>
            LET c == all_states[k].state.Catch IN
            /\ Len(c) = 2
            /\ c[1].ErrorEquals = <<"BadRequestError">>
            /\ c[2].ErrorEquals = <<"States.TaskFailed">>
            /\ c[1].Next = LAMBDA_ERROR_FALLBACK
            /\ c[2].Next = LAMBDA_ERROR_FALLBACK
    /\ Compiled =>
          /\ LAMBDA_ERROR_FALLBACK \in Keys(result.doc.States)
          /\ \A j \in 1..Len(result.doc.States) :
                LET s == result.doc.States[j].value IN
                s.Type = "Task" =>
                  \A c \in 1..Len(s.Catch) : s.Catch[c].Next \in Keys(result.doc.States)

\* C15 witness: a returned document of a source with a `catch` list holds a
\* Task that declares a goto.
C15_Witness ==
    /\ Compiled
    /\ Has(data, "catch")
    /\ \E j \in 1..Len(result.doc.States) :
          /\ result.doc.States[j].value.Type = "Task"
          /\ Has(result.doc.States[j].value, "Next")
          /\ result.doc.States[j].value.Next = "s2"

-----------------------------------------------------------------------------
(* Reading a run of _export_content *)

\* _export_content is over: it has raised or it has returned.
BatchOver == bpc \in {"raised", "returned"}

\* The positions of the calls of create_step_function that raised, and of
\* those that returned a document.
FailedCalls == { j \in 1..Len(attempted) : Has(attempted[j].result, "error") }
CompiledCalls == { j \in 1..Len(attempted) : Has(attempted[j].result, "doc") }

\* The workflow is selected by the `biz` option.
IsSelected(service) == biz = None \/ service = biz

\* The positions in `services` where a selected workflow name occurs first.
FirstOccurrences ==
    { j \in 1..Len(services) :
        /\ IsSelected(services[j])
        /\ \A i \in 1..(j - 1) : services[i] /= services[j] }

\* The position in `attempted` of the first call for the workflow name.
FirstCall(service) ==
    CHOOSE j \in 1..Len(attempted) :
        /\ attempted[j].sfn_name = service
        /\ \A i \in 1..(j - 1) : attempted[i].sfn_name /= service

Range(seq) == { seq[j] : j \in 1..Len(seq) }

\* C16: when _export_content is over, every selected workflow has been
\* attempted and the first attempts follow the order of the services, also
\* past a failed one; it raises only after the loop went over all services,
\* exactly when an attempt failed, and the error stream then holds the line
\* "Error in <name>: <message>" of every failed attempt and no other line.
C16_PartialFailure ==
    /\ BatchOver =>
          /\ \A j \in FirstOccurrences :
                \E k \in 1..Len(attempted) : attempted[k].sfn_name = services[j]
          /\ \A i, j \in FirstOccurrences :
                i < j => FirstCall(services[i]) < FirstCall(services[j])
          /\ \A k \in 1..Len(attempted) : IsSelected(attempted[k].sfn_name)
          /\ (bpc = "raised") <=> (FailedCalls /= {})
    /\ bpc = "raised" =>
          /\ raised = "WriterError"
          /\ bi > Len(services)
          /\ Range(error) =
                { "Error in " \o attempted[k].sfn_name \o ": "
                             \o attempted[k].result.error : k \in FailedCalls }
          /\ \A k \in CompiledCalls : attempted[k].sfn_name \notin Keys(errors)

\* C16 witness: the run raised after a workflow failed and a workflow
\* declared after it was compiled, and two workflows are reported.
C16_Witness ==
    /\ bpc = "raised"
    /\ \E i \in FailedCalls : \E j \in CompiledCalls : i < j
    /\ Len(error) = 2

\* C17: once an attempt of the run has failed, the output stream holds
\* nothing, whatever the other workflows did; what it holds was written
\* after every attempt returned a document.
C17_NoOutputOnFailure ==
    /\ FailedCalls /= {} => output = <<>>
    /\ output /= <<>> => (bpc = "returned" /\ FailedCalls = {})
    /\ bpc = "raised" => output = <<>>

\* C17 witness: the run raised although one of its workflows compiled.
C17_Witness ==
    /\ bpc = "raised"
    /\ CompiledCalls /= {}
    /\ FailedCalls /= {}

\* C18: when the run returned with n >= 1 workflows compiled, the output
\* stream holds 2n-1 prints: the text of the document of the j-th workflow
\* name, in the order of first occurrence among the services, at 2j-1 and
\* the marker "---" at every even position.
C18_DocumentsInOrder ==
    (bpc = "returned" /\ Len(attempted) >= 1) =>
      LET n == Len(attempted) IN
      /\ n = Cardinality(FirstOccurrences)
      /\ \A i \in FirstOccurrences :
            attempted[Cardinality({ j \in FirstOccurrences : j <= i })].sfn_name
              = services[i]
      /\ Len(output) = 2 * n - 1
      /\ \A j \in 1..n : output[2 * j - 1] = json_dumps(attempted[j].result.doc)
      /\ \A j \in 1..(n - 1) : output[2 * j] = "---"

\* C18 witness: three documents were written, of workflows declared in an
\* order that is not the alphabetical one.
C18_Witness ==
    /\ bpc = "returned"
    /\ Len(output) = 5
    /\ services = <<"orders", "biz", "billing">>

C20_OnlyWriterError ==
    /\ pc = "done" => (Has(result, "doc") \/ result.type = "WriterError")
    /\ (pc = "done" /\ file = "missing") =>
          result = WriterError("The source for the " \o sfn_name
                               \o " microservice should be found in cwd/filepath.")
    /\ (pc = "done" /\ file = "unparsable") => result = WriterError("yaml error")
    /\ (pc = "done" /\ file = "loaded" /\ DOMAIN data = {}) =>
          result = WriterError("The content of the " \o sfn_name
                               \o " microservice seems to be empty.")
    /\ (FailedInLoop /\ Has(actions[idx], "choices")
          /\ ~Has(actions[idx].choices[1], "goto")) =>
          result = WriterError(Repr("The key goto is missing for "
                                    \o ToString(actions[idx].choices[1])))

\* C20 witness: the call has failed on a Choice whose first branch has no
\* goto.
C20_Witness ==
    /\ FailedInLoop
    /\ Has(actions[idx], "choices")
    /\ ~Has(actions[idx].choices[1], "goto")

-----------------------------------------------------------------------------
(* Reading the branches of a Choice *)

\* The wrapper key create_choices_sequence applies to the branch: the first
\* of not, or, and it has.
WrapperOf(b) ==
    IF Has(b, "not") THEN "not"
    ELSE IF Has(b, "or") THEN "or"
    ELSE IF Has(b, "and") THEN "and"
    ELSE "none"

\* The key of the entry a wrapper is emitted under.
KeyOf(w) == IF w = "not" THEN "Not" ELSE IF w = "or" THEN "Or" ELSE "And"

\* The fragment create_condition is applied to for the branch.
FragmentOf(b) == IF WrapperOf(b) = "none" THEN b ELSE b[WrapperOf(b)]

\* create_condition misses a key in the fragment, and the first key missed.
Missing(f) == ~Has(f, "var") \/ ~Has(f, "oper") \/ ~Has(f, "value")

FirstMissing(f) ==
    IF ~Has(f, "var") THEN "var" ELSE IF ~Has(f, "oper") THEN "oper" ELSE "value"

\* The branch the loop of create_choices_sequence raises on, if any.
BadBranch(b) == ~Has(b, "goto") \/ Missing(FragmentOf(b))

FirstBad(choices) ==
    CHOOSE j \in 1..Len(choices) :
        /\ BadBranch(choices[j])
        /\ \A i \in 1..(j - 1) : ~BadBranch(choices[i])

\* The keys of the jump directive of a branch that has a goto.
JumpKeys(b) == IF b.goto = "End" THEN {"End"} ELSE {"Next"}

\* The condition part of the entry compiled from the branch.
ConditionOf(b, e) ==
    IF WrapperOf(b) = "none"
    THEN [x \in DOMAIN e \ {"Next", "End"} |-> e[x]]
    ELSE e[KeyOf(WrapperOf(b))]

ChoiceNodes ==
    { k \in MainNodes \cup CatchNodes : all_states[k].cls = "ChoiceState" }

\* create_step_function has raised while compiling the Choice actions[idx].
FailedOnChoice == FailedInLoop /\ Has(actions[idx], "choices")

\* The actions the source declares, in `states` and in `catch`.
DeclaredActions ==
    (IF Has(data, "states") THEN Range(data.states) ELSE {})
    \cup (IF Has(data, "catch") THEN Range(data.catch) ELSE {})

\* The number of nodes all_states holds when new_state raises on actions[idx]:
\* Init (and, in the catch list, the nodes of `states` and the fallback
\* node), then one node per action before it.
NodesBeforeFailure ==
    (IF Has(data, "catch") /\ actions = data.catch /\ Len(all_states) > 1 + NStates
     THEN 2 + NStates ELSE 1) + (idx - 1)

\* C21: a Choice node has one entry with a jump per branch and every branch
\* of its action has a goto; a source declaring a Choice with a branch
\* without goto never gives a document; when the loop over the branches
\* reaches such a branch the call fails with the missing-goto error naming
\* the branch, and no node is appended for the Choice.
C21_EveryBranchJumps ==
    /\ \A k \in ChoiceNodes :
          LET a == all_states[k].action
              s == all_states[k].state
          IN
          /\ Len(s.Choices) = Len(a.choices)
          /\ \A j \in 1..Len(a.choices) :
                /\ Has(a.choices[j], "goto")
                /\ Has(s.Choices[j], "Next") \/ Has(s.Choices[j], "End")
    /\ (pc = "done" /\ \E a \in DeclaredActions :
                          /\ Has(a, "choices")
                          /\ \E j \in 1..Len(a.choices) : ~Has(a.choices[j], "goto"))
          => Failed
    /\ (FailedOnChoice /\ ~Has(actions[idx].choices[FirstBad(actions[idx].choices)], "goto"))
          => /\ result = WriterError(Repr("The key goto is missing for " \o
                   ToString(actions[idx].choices[FirstBad(actions[idx].choices)])))
             /\ Len(all_states) = NodesBeforeFailure

\* C21 witness: the call failed on a Choice whose first branch is complete
\* and whose second branch has no goto.
C21_Witness ==
    /\ FailedOnChoice
    /\ Len(actions[idx].choices) = 2
    /\ ~BadBranch(actions[idx].choices[1])
    /\ ~Has(actions[idx].choices[2], "goto")

\* C22: the fragment of every branch of a Choice node has var, oper and
\* value, and its condition is exactly Variable: var and <oper>: value; when
\* the loop over the branches reaches a branch with a goto whose fragment
\* lacks one of the keys, the call fails with the missing-key error naming
\* the first absent key and the fragment.
C22_ConditionFields ==
    /\ \A k \in ChoiceNodes :
          \A j \in 1..Len(all_states[k].action.choices) :
            LET b == all_states[k].action.choices[j]
                f == FragmentOf(b)
                c == ConditionOf(b, all_states[k].state.Choices[j])
            IN
            /\ ~Missing(f)
            /\ DOMAIN c = {"Variable", f.oper}
            /\ c.Variable = f.var
            /\ c[f.oper] = f.value
    /\ (FailedOnChoice /\ Has(actions[idx].choices[FirstBad(actions[idx].choices)], "goto"))
          => LET f == FragmentOf(actions[idx].choices[FirstBad(actions[idx].choices)]) IN
             result = WriterError("The key " \o FirstMissing(f) \o " is missing for "
                                  \o ToString(f))

\* C22 witness: the call failed on a branch whose fragment under `not` has
\* no value.
C22_Witness ==
    /\ FailedOnChoice
    /\ LET b == actions[idx].choices[FirstBad(actions[idx].choices)] IN
       /\ Has(b, "goto")
       /\ WrapperOf(b) = "not"
       /\ FirstMissing(FragmentOf(b)) = "value"

\* C24: an entry of Choices has at most one of Not, Or, And; for a branch
\* with a wrapper key its keys are the wrapper and the jump directive, the
\* wrapper holding the condition of the wrapped fragment, and the var / oper
\* / value of the branch itself are not in it; for a branch without wrapper
\* its keys are those of the condition and the jump directive.
C24_SingleWrapper ==
    \A k \in ChoiceNodes :
      \A j \in 1..Len(all_states[k].action.choices) :
        LET b == all_states[k].action.choices[j]
            e == all_states[k].state.Choices[j]
            f == FragmentOf(b)
        IN
        /\ Cardinality({ w \in {"Not", "Or", "And"} : Has(e, w) }) <= 1
        /\ WrapperOf(b) /= "none" =>
              /\ DOMAIN e = {KeyOf(WrapperOf(b))} \cup JumpKeys(b)
              /\ e[KeyOf(WrapperOf(b))] = ((f.oper :> f.value) @@ [Variable |-> f.var])
        /\ WrapperOf(b) = "none" =>
              /\ DOMAIN e = {"Variable", b.oper} \cup JumpKeys(b)
              /\ e.Variable = b.var
              /\ e[b.oper] = b.value
        /\ IF b.goto = "End" THEN e.End = TRUE ELSE e.Next = b.goto

\* C24 witness: a returned document holds a Choice with a branch that has a
\* wrapper and a condition of its own, and a branch that has two wrappers.
C24_Witness ==
    /\ Compiled
    /\ \E k \in ChoiceNodes :
          LET c == all_states[k].action.choices IN
          /\ \E j \in 1..Len(c) : Has(c[j], "and") /\ Has(c[j], "var")
          /\ \E j \in 1..Len(c) : Has(c[j], "not") /\ Has(c[j], "or")

-----------------------------------------------------------------------------
(* Linking, order and document-level validation *)

\* The node has no outgoing edge of its own yet: add_next_to_previous_state
\* gives it one.
HasNoEdge(node) ==
    IF node.cls = "ChoiceState" THEN ~Has(node.state, "Default")
    ELSE ~Has(node.state, "Next") /\ ~Has(node.state, "End")

\* A Wait or Task node has the jump its action declares: Next for a goto,
\* End and no Next for goto End.
DeclaredJumpKept ==
    \A k \in MainNodes \cup CatchNodes :
      LET a == all_states[k].action
          s == all_states[k].state
      IN
      (all_states[k].cls \in {"WaitState", "TechState"} /\ Has(a, "goto")) =>
        IF a.goto = "End"
        THEN Has(s, "End") /\ s.End = TRUE /\ ~Has(s, "Next")
        ELSE Has(s, "Next") /\ s.Next = a.goto /\ ~Has(s, "End")

\* One iteration of the loop of add_actions leaves every node before the
\* previous one as it is; the previous node keeps its class and action and
\* changes only if it has no edge yet, and then by that one edge, to the new
\* node.
LinkerFrame ==
    (pc \in {"states", "catch"} /\ idx <= Len(actions)
       /\ Len(all_states') = Len(all_states) + 1) =>
      LET n == Len(all_states)
          p == all_states[n]
          q == all_states'[n]
      IN
      /\ \A k \in 1..(n - 1) : all_states'[k] = all_states[k]
      /\ q.cls = p.cls
      /\ q.action = p.action
      /\ q /= p =>
            /\ HasNoEdge(p)
            /\ q.state = Put(p.state,
                             IF p.cls = "ChoiceState" THEN "Default" ELSE "Next",
                             name(all_states'[n + 1]))

\* C23: a Wait or Task with goto X has Next X, with goto End has End and no
\* Next, whatever follows it; linking changes the previous node only when it
\* has no edge yet, adds that one edge and nothing else, and changes no
\* earlier node.
C23_ExplicitJumpKept == []DeclaredJumpKept /\ [][LinkerFrame]_vars

\* C23 witness: a returned document in which a Wait or Task with a goto to
\* another state than the next one is followed by a node, and so is one with
\* goto End.
C23_Witness ==
    /\ Compiled
    /\ \E k \in MainNodes :
          /\ ~IsLastOfList(k)
          /\ all_states[k].cls \in {"WaitState", "TechState"}
          /\ Has(all_states[k].action, "goto")
          /\ all_states[k].action.goto \notin {"End", name(all_states[k + 1])}

\* C26: in a returned document all_states is Init, one node per action of
\* `states` in order, the fallback node, one node per action of `catch` in
\* order, and States has one key per node, in the order of the nodes.
C26_OrderedNodes ==
    Compiled =>
      LET States == result.doc.States IN
      /\ Len(all_states) = 2 + NStates + NCatch
      /\ name(all_states[1]) = INITIAL_STATE_NAME
      /\ \A j \in 1..NStates : all_states[1 + j].action = data.states[j]
      /\ name(all_states[2 + NStates]) = LAMBDA_ERROR_FALLBACK
      /\ \A j \in 1..NCatch : all_states[2 + NStates + j].action = data.catch[j]
      /\ Len(States) = Len(all_states)
      /\ \A k \in 1..Len(States) : States[k].key = name(all_states[k])

\* C27: an empty document fails with the empty-content error and a document
\* without `states` with the missing-key error for states; for both no
\* action is ever compiled (all_states holds at most the Init node) and no
\* document is returned.
C27_DocumentChecks ==
    (file = "loaded" /\ (DOMAIN data = {} \/ ~Has(data, "states"))) =>
      /\ pc \in {"open", "done"}
      /\ pc = "done" =>
            IF DOMAIN data = {}
            THEN /\ result = WriterError("The content of the " \o sfn_name
                                         \o " microservice seems to be empty.")
                 /\ all_states = <<>>
            ELSE /\ result = WriterError("The key states is missing for "
                                         \o ToString(data))
                 /\ Len(all_states) = 1
                 /\ name(all_states[1]) = INITIAL_STATE_NAME

\* C27 witness: the call failed on a document that has a `catch` list and no
\* `states`.
C27_Witness == Failed /\ Has(data, "catch") /\ ~Has(data, "states")

\* The fallback name and the names of the states of the catch branch.
CatchSide ==
    {LAMBDA_ERROR_FALLBACK} \cup { name(all_states[k]) : k \in CatchNodes }

\* C28: in a returned document a Next or a Default that a state of `states`
\* holds without its action declaring it (goto, default) names neither the
\* fallback state nor a state of the catch branch, and the last state of
\* `states` has End or Next.
C28_NoFallthroughIntoFallback ==
    Compiled =>
      /\ \A k \in MainNodes :
            LET a == all_states[k].action
                s == all_states[k].state
            IN
            /\ (Has(s, "Next") /\ ~Has(a, "goto")) => s.Next \notin CatchSide
            /\ (Has(s, "Default") /\ ~Has(a, "default")) => s.Default \notin CatchSide
      /\ Has(all_states[1 + NStates].state, "End")
            \/ Has(all_states[1 + NStates].state, "Next")

-----------------------------------------------------------------------------
(* Workflows of one run of _export_content *)

\* C25: what _export_content obtains from each call of create_step_function
\* is what create_step_function gives for the name and the source of that
\* workflow on their own, whatever was compiled before it in the run and
\* whether it failed.
C25_IndependentWorkflows ==
    \A k \in 1..Len(attempted) :
        attempted[k].result =
            create_step_function(attempted[k].sfn_name, sources[attempted[k].sfn_name])

\* C25 witness: in one run a workflow failed, then two workflows with the
\* same source were compiled one after the other.
C25_Witness ==
    /\ BatchOver
    /\ Len(attempted) = 3
    /\ 1 \in FailedCalls
    /\ 2 \in CompiledCalls
    /\ 3 \in CompiledCalls
    /\ sources[attempted[2].sfn_name] = sources[attempted[3].sfn_name]
    /\ Has(sources[attempted[2].sfn_name].data, "catch")

\* C29: create_step_function is called at most once per workflow name in a
\* run and only for the name `biz` selects; the output stream holds at most
\* one document and the error stream at most one line per name.
C29_CompiledOnce ==
    /\ \A i, j \in 1..Len(attempted) :
          i /= j => attempted[i].sfn_name /= attempted[j].sfn_name
    /\ \A k \in 1..Len(attempted) : IsSelected(attempted[k].sfn_name)
    /\ \A i, j \in 1..Len(error) : i /= j => error[i] /= error[j]
    /\ \A i, j \in 1..Len(output) :
          (i /= j /\ output[i] /= "---") => output[i] /= output[j]

-----------------------------------------------------------------------------
(* CwsCommand.execute and its hooks (coworks/cws/command.py) *)

\* The most functions registered before, and after.
MaxHooks == 2

\* The functions an application registers.
Hooks == {"f", "g"}

\* create_step_function is not running.
NoCompile ==
    /\ sfn_name = None
    /\ file = "missing"
    /\ data = Empty
    /\ pc = "idle"
    /\ all_states = <<>>
    /\ actions = <<>>
    /\ idx = 0
    /\ result = Empty

\* CwsCommand.__init__: the two empty lists.
InitCommand ==
    /\ before_funcs = <<>>
    /\ after_funcs = <<>>
    /\ epc = "idle"
    /\ ei = 0
    /\ calls = <<>>
    /\ registrations = <<>>
    /\ NoCompile
    /\ NoBatch
    /\ FirstRun

\* The function is put in front of the list.
append_in_front(funcs, f) == <<f>> \o funcs

\* list.append(f)
append(funcs, f) == Append(funcs, f)

\* CwsCommand.before_execute(f), before the command is executed.
before_execute ==
    /\ epc = "idle"
    /\ Len(before_funcs) < MaxHooks
    /\ \E f \in Hooks :
          /\ before_funcs' = append(before_funcs, f)
          /\ registrations' = Append(registrations, [kind |-> "before", func |-> f])
    /\ UNCHANGED <<after_funcs, epc, ei, calls, cvars, bvars, tvars>>

\* CwsCommand.after_execute(f), before the command is executed.
after_execute ==
    /\ epc = "idle"
    /\ Len(after_funcs) < MaxHooks
    /\ \E f \in Hooks :
          /\ after_funcs' = append(after_funcs, f)
          /\ registrations' = Append(registrations, [kind |-> "after", func |-> f])
    /\ UNCHANGED <<before_funcs, epc, ei, calls, cvars, bvars, tvars>>

\* A call made by execute, with whether it returned.
Call(kind, f, returned) == [kind |-> kind, func |-> f, returned |-> returned]

\* Lines 89-94: deferred_init and the two streams; any of them may raise.
ExecuteEnter ==
    /\ epc = "idle"
    /\ \E returned \in BOOLEAN :
          IF returned THEN epc' = "before" /\ ei' = 1
          ELSE epc' = "raised" /\ ei' = ei
    /\ UNCHANGED <<before_funcs, after_funcs, calls, registrations, cvars, bvars, tvars>>

\* Lines 96-97: one iteration of the loop over before_funcs.
CallBefore ==
    /\ epc = "before"
    /\ ei <= Len(before_funcs)
    /\ \E returned \in BOOLEAN :
          /\ calls' = Append(calls, Call("before", before_funcs[ei], returned))
          /\ IF returned THEN ei' = ei + 1 /\ epc' = epc
             ELSE epc' = "raised" /\ ei' = ei
    /\ UNCHANGED <<before_funcs, after_funcs, registrations, cvars, bvars, tvars>>

\* Line 99: self._execute(options)
Execute ==
    /\ epc = "before"
    /\ ei > Len(before_funcs)
    /\ \E returned \in BOOLEAN :
          /\ calls' = Append(calls, Call("_execute", "_execute", returned))
          /\ IF returned THEN epc' = "after" /\ ei' = 1
             ELSE epc' = "raised" /\ ei' = ei
    /\ UNCHANGED <<before_funcs, after_funcs, registrations, cvars, bvars, tvars>>

\* Lines 101-102: one iteration of the loop over after_funcs.
CallAfter ==
    /\ epc = "after"
    /\ ei <= Len(after_funcs)
    /\ \E returned \in BOOLEAN :
          /\ calls' = Append(calls, Call("after", after_funcs[ei], returned))
          /\ IF returned THEN ei' = ei + 1 /\ epc' = epc
             ELSE epc' = "raised" /\ ei' = ei
    /\ UNCHANGED <<before_funcs, after_funcs, registrations, cvars, bvars, tvars>>

\* execute returns after the loop over after_funcs.
ExecuteReturn ==
    /\ epc = "after"
    /\ ei > Len(after_funcs)
    /\ epc' = "returned"
    /\ UNCHANGED <<before_funcs, after_funcs, ei, calls, registrations, cvars, bvars,
                   tvars>>

NextCommand ==
    \/ before_execute
    \/ after_execute
    \/ ExecuteEnter
    \/ CallBefore
    \/ Execute
    \/ CallAfter
    \/ ExecuteReturn

SpecCommand == InitCommand /\ [][NextCommand]_vars

\* The functions registered with the kind, in registration order.
Registered(kind) ==
    LET r == SelectSeq(registrations, LAMBDA x : x.kind = kind)
    IN [j \in 1..Len(r) |-> r[j].func]

\* The calls execute makes when nothing raises.
AllCalls ==
    [j \in 1..Len(Registered("before")) |->
        [kind |-> "before", func |-> Registered("before")[j]]]
    \o << [kind |-> "_execute", func |-> "_execute"] >>
    \o [j \in 1..Len(Registered("after")) |->
        [kind |-> "after", func |-> Registered("after")[j]]]

\* The positions in calls of the calls of the kind.
CallsOf(kind) == { j \in 1..Len(calls) : calls[j].kind = kind }

\* C30: the calls execute made are the first calls of: the before functions
\* in registration order, _execute, the after functions in registration
\* order; only the last call made may have raised, and execute then raised
\* too; when execute returned every call was made and returned, _execute
\* once; an after function is called only after _execute returned, and none
\* when a before function or _execute raised.
C30_HooksAroundExecute ==
    /\ Len(calls) <= Len(AllCalls)
    /\ \A j \in 1..Len(calls) :
          /\ calls[j].kind = AllCalls[j].kind
          /\ calls[j].func = AllCalls[j].func
          /\ j < Len(calls) => calls[j].returned
    /\ (Len(calls) > 0 /\ ~calls[Len(calls)].returned) <=> (epc = "raised" /\ calls /= <<>>)
    /\ Cardinality(CallsOf("_execute")) <= 1
    /\ epc = "returned" =>
          /\ Len(calls) = Len(AllCalls)
          /\ Cardinality(CallsOf("_execute")) = 1
    /\ \A j \in CallsOf("after") :
          \E i \in CallsOf("_execute") : i < j /\ calls[i].returned
    /\ (\E j \in 1..Len(calls) : calls[j].kind /= "after" /\ ~calls[j].returned)
          => CallsOf("after") = {}

\* C30 witness: execute returned with two different functions registered
\* before and two after.
C30_Witness ==
    /\ epc = "returned"
    /\ Len(before_funcs) = 2
    /\ before_funcs[1] /= before_funcs[2]
    /\ Len(after_funcs) = 2
    /\ after_funcs[1] /= after_funcs[2]

====
